---- MODULE Spec2Model ----
(***************************************************************************)
(* Model of the routing core of inspired_by_flask/router/router.py.        *)
(*                                                                         *)
(* Python strings are sequences of one-character strings, so that          *)
(* str.split, the two regular expressions and the int/float/str            *)
(* converters are computed character by character as the code computes     *)
(* them.                                                                   *)
(***************************************************************************)
EXTENDS Integers, Sequences, FiniteSets, TLC

----------------------------------------------------------------------------
(* String helpers *)

Max(S) == CHOOSE x \in S : \A y \in S : y <= x
Min(S) == CHOOSE x \in S : \A y \in S : x <= y

Digits == {"0", "1", "2", "3", "4", "5", "6", "7", "8", "9"}

DigitVal(c) ==
    CASE c = "0" -> 0 [] c = "1" -> 1 [] c = "2" -> 2 [] c = "3" -> 3
      [] c = "4" -> 4 [] c = "5" -> 5 [] c = "6" -> 6 [] c = "7" -> 7
      [] c = "8" -> 8 [] c = "9" -> 9

\* url.split("/")
RECURSIVE split(_)
split(s) ==
    IF \A i \in 1..Len(s) : s[i] # "/"
    THEN <<s>>
    ELSE LET k == Min({i \in 1..Len(s) : s[i] = "/"})
         IN  <<SubSeq(s, 1, k - 1)>> \o split(SubSeq(s, k + 1, Len(s)))

\* "/".join(parts)
RECURSIVE join(_)
join(parts) ==
    IF parts = <<>> THEN <<>>
    ELSE IF Len(parts) = 1 THEN parts[1]
    ELSE parts[1] \o <<"/">> \o join(Tail(parts))

----------------------------------------------------------------------------
(* The two regular expressions *)

\* _URL_PARAMS_FINDER.findall(s): the non-overlapping leftmost matches of
\* \<.+?\> : a "<", at least one character, then the nearest ">".
RECURSIVE URL_PARAMS_FINDER(_)
URL_PARAMS_FINDER(s) ==
    IF s = <<>> THEN <<>>
    ELSE IF s[1] = "<" /\ \E j \in 3..Len(s) : s[j] = ">"
    THEN LET j == Min({i \in 3..Len(s) : s[i] = ">"})
         IN  <<SubSeq(s, 1, j)>> \o URL_PARAMS_FINDER(SubSeq(s, j + 1, Len(s)))
    ELSE URL_PARAMS_FINDER(Tail(s))

\* group("type") of a match without the optional "type:" part (None)
NoType == <<>>

NoMatch == [ok |-> FALSE, type |-> NoType, name |-> <<>>]

\* _URL_PARAMS_TYPE_FINDER.match(s), \<((?P<type>.+):)?(?P<name>.+){1}\> :
\* anchored at the start of s only; both .+ are greedy, so the name ends at
\* the last ">" of s and the type ends at the last ":" that still leaves a
\* non-empty name.
URL_PARAMS_TYPE_FINDER(s) ==
    LET gts == {i \in 3..Len(s) : s[i] = ">"}
    IN  IF Len(s) = 0 \/ s[1] # "<" \/ gts = {}
        THEN NoMatch
        ELSE LET m  == Max(gts)
                 ks == {k \in 3..(m - 2) : s[k] = ":"}
             IN  IF ks # {}
                 THEN [ok |-> TRUE, type |-> SubSeq(s, 2, Max(ks) - 1),
                       name |-> SubSeq(s, Max(ks) + 1, m - 1)]
                 ELSE [ok |-> TRUE, type |-> NoType,
                       name |-> SubSeq(s, 2, m - 1)]

----------------------------------------------------------------------------
(* UrlParamFormatter *)

\* _PARAM_TYPE_MAPPER[param_type]: a defaultdict falling back to str
PARAM_TYPE_MAPPER(t) ==
    IF t = <<"i", "n", "t">> THEN "int"
    ELSE IF t = <<"f", "l", "o", "a", "t">> THEN "float"
    ELSE "str"

\* The literals int() accepts over the characters of the model: an optional
\* sign and at least one digit.
IsSignedDigits(v) ==
    LET body == IF v # <<>> /\ v[1] \in {"-", "+"} THEN Tail(v) ELSE v
    IN  body # <<>> /\ \A i \in 1..Len(body) : body[i] \in Digits

RECURSIVE DigitsVal(_)
DigitsVal(v) ==
    IF v = <<>> THEN 0
    ELSE 10 * DigitsVal(SubSeq(v, 1, Len(v) - 1)) + DigitVal(v[Len(v)])

SignedVal(v) ==
    IF v[1] = "-" THEN 0 - DigitsVal(Tail(v))
    ELSE IF v[1] = "+" THEN DigitsVal(Tail(v))
    ELSE DigitsVal(v)

\* UrlParamFormatter.is_convertable: convert() raised no ValueError
is_convertable(conv, v) ==
    IF conv = "str" THEN TRUE ELSE IsSignedDigits(v)

\* UrlParamFormatter.convert, defined where is_convertable holds.  The value
\* carries its Python type: int("5") and float("5") and "5" all differ.
convert(conv, v) ==
    IF conv = "str" THEN [type |-> "str", num |-> 0, text |-> v]
    ELSE [type |-> conv, num |-> SignedVal(v), text |-> <<>>]

----------------------------------------------------------------------------
(* Path matching *)

\* A Python dict, in insertion order: a sequence of [name, value] entries
\* with distinct names.  d[name] = value keeps the position of an existing
\* key and replaces its value.
DictSet(d, name, value) ==
    IF \E i \in 1..Len(d) : d[i].name = name
    THEN [i \in 1..Len(d) |->
            IF d[i].name = name THEN [name |-> name, value |-> value] ELSE d[i]]
    ELSE Append(d, [name |-> name, value |-> value])

\* The loop of parse_url over zip(url_format_list, url_list), from pair i on.
\* The result is [ok, params]; ok = FALSE stands for UrlFormatError.
RECURSIVE parse_url_loop(_, _, _, _)
parse_url_loop(url_format_list, url_list, i, params_dict) ==
    IF i > Len(url_format_list)
    THEN [ok |-> TRUE, params |-> params_dict]
    ELSE IF url_format_list[i] = url_list[i]
    THEN parse_url_loop(url_format_list, url_list, i + 1, params_dict)
    ELSE LET param == URL_PARAMS_TYPE_FINDER(url_format_list[i])
         IN  IF ~param.ok
             THEN [ok |-> FALSE, params |-> <<>>]
             ELSE parse_url_loop(url_format_list, url_list, i + 1,
                                 DictSet(params_dict, param.name, url_list[i]))

\* parse_url(url_format, url)
parse_url(url_format, url) ==
    LET url_format_list == split(url_format)
        url_list        == split(url)
    IN  IF Len(url_format_list) # Len(url_list)
        THEN [ok |-> FALSE, params |-> <<>>]
        ELSE parse_url_loop(url_format_list, url_list, 1, <<>>)

\* from_url_get_required_params(url_format): name -> converter; a name that
\* occurs twice keeps the converter of its last occurrence.
from_url_get_required_params(url_format) ==
    LET toks == URL_PARAMS_FINDER(url_format)
        ms   == [i \in 1..Len(toks) |-> URL_PARAMS_TYPE_FINDER(toks[i])]
    IN  [n \in {ms[i].name : i \in 1..Len(toks)} |->
            PARAM_TYPE_MAPPER(ms[Max({i \in 1..Len(toks) : ms[i].name = n})].type)]

\* from_url_get_required_params_names(url_format), in template order
from_url_get_required_params_names(url_format) ==
    LET toks == URL_PARAMS_FINDER(url_format)
    IN  [i \in 1..Len(toks) |-> URL_PARAMS_TYPE_FINDER(toks[i]).name]

----------------------------------------------------------------------------
(* SimpleRoute *)

\* all(formatter[key].is_convertable(value) for key, value in items), from
\* entry i on: "KeyError" when a key has no formatter, and all() stops at the
\* first False.
RECURSIVE all_convertable(_, _, _)
all_convertable(required, items, i) ==
    IF i > Len(items) THEN "True"
    ELSE IF items[i].name \notin DOMAIN required THEN "KeyError"
    ELSE IF ~is_convertable(required[items[i].name], items[i].value) THEN "False"
    ELSE all_convertable(required, items, i + 1)

\* SimpleRoute.validate_url of a route with mapped_url = template:
\* "True", "False", or "KeyError" when the exception leaves the method.
simple_validate_url(template, url) ==
    LET parsed == parse_url(template, url)
    IN  IF ~parsed.ok THEN "False"
        ELSE all_convertable(from_url_get_required_params(template),
                             parsed.params, 1)

\* The dict comprehension of SimpleRoute.parse_url, called where
\* simple_validate_url is "True".
simple_parse_url(template, url) ==
    LET required == from_url_get_required_params(template)
        items    == parse_url(template, url).params
    IN  [i \in 1..Len(items) |->
            [name  |-> items[i].name,
             value |-> convert(required[items[i].name], items[i].value)]]

----------------------------------------------------------------------------
(* The templates, paths and names of the model *)

TplInt    == <<"/", "a", "/", "<", "i", "n", "t", ":", "x", ">">>
TplFloat  == <<"/", "a", "/", "<", "f", "l", "o", "a", "t", ":", "x", ">">>
TplXY     == <<"/", "a", "/", "<", "x", ">", "/", "<", "y", ">">>
TplAX     == <<"/", "a", "/", "<", "x", ">">>
TplShort  == <<"/", "s", "/", "<", "x", ">">>
TplLit    == <<"/", "a", "/", "b">>
TplTag    == <<"/", "a", "/", "<", "i", "d", ":", "x", ">">>
TplTwo    == <<"/", "a", "/", "<", "x", ">", "-", "<", "y", ">">>

PathA5    == <<"/", "a", "/", "5">>
PathAB    == <<"/", "a", "/", "b">>
PathA5D   == <<"/", "a", "/", "5", "/", "d">>
PathS5    == <<"/", "s", "/", "5">>
PathTok   == <<"/", "a", "/", "<", "i", "n", "t", ":", "x", ">">>
PathA     == <<"/", "a">>
PathA56   == <<"/", "a", "/", "5", "-", "6">>
PathNeg   == <<"/", "a", "/", "-", "5">>
PathXD    == <<"/", "a", "/", "<", "x", ">", "/", "d">>

NameY == <<"y">>
ValD  == <<"d">>

AllTemplates ==
    {TplInt, TplFloat, TplXY, TplAX, TplShort, TplLit, TplTag, TplTwo}

AllPaths ==
    {PathA5, PathAB, PathA5D, PathS5, PathTok, PathA, PathA56, PathNeg, PathXD}

\* The paths, and what a NestedRoute makes of them before it delegates
AllUrls == AllPaths \cup {p \o <<"/">> \o ValD : p \in AllPaths}

\* simple_validate_url and simple_parse_url tabulated over the templates and
\* urls of the model, so that each pair is matched once
validate_table ==
    [t \in AllTemplates, u \in AllUrls |-> simple_validate_url(t, u)]

parse_table ==
    [t \in AllTemplates, u \in AllUrls |->
        IF simple_validate_url(t, u) = "True" THEN simple_parse_url(t, u) ELSE <<>>]

----------------------------------------------------------------------------
(* NestedRoute *)

\* urljoin(base, rel) of urllib.parse for a base path that ends in "/" and a
\* relative path without scheme, leading "/", "." or ".." segments, query or
\* fragment: rel replaces what follows the last "/" of base, and an empty
\* rel leaves base as it is.
urljoin(base, rel) ==
    IF rel = <<>> THEN base
    ELSE SubSeq(base, 1, Max({i \in 1..Len(base) : base[i] = "/"})) \o rel

\* NestedRoute.__init__: "/".join(str(default_url_params[n]) for n in the
\* mapped route's placeholder names if n in default_url_params).  The
\* default values of the model are strings, which str() leaves alone.
default_url_params_str(mapped_url, default_url_params) ==
    LET names   == from_url_get_required_params_names(mapped_url)
        Has(n)  == n \in DOMAIN default_url_params
        present == SelectSeq(names, Has)
    IN  join([i \in 1..Len(present) |-> default_url_params[present[i]]])

----------------------------------------------------------------------------
(* Routes.  A route is a record; mapped_route is <<>> for a SimpleRoute and
   <<the wrapped SimpleRoute>> for a NestedRoute. *)

NoHandler == "none"

\* SimpleRoute.__init__
SimpleRoute(url, handler, accepted_methods) ==
    [kind |-> "simple", mapped_url |-> url,
     accepted_methods |-> accepted_methods, handler |-> handler,
     mapped_route |-> <<>>, default_str |-> <<>>]

\* NestedRoute.__init__
NestedRoute(url, mapped_route, accepted_methods, default_url_params) ==
    [kind |-> "nested", mapped_url |-> url,
     accepted_methods |-> accepted_methods, handler |-> NoHandler,
     mapped_route |-> <<mapped_route>>,
     default_str |-> default_url_params_str(mapped_route.mapped_url,
                                            default_url_params)]

\* __eq__ comparing the whole objects, handler included
RouteIdentical(a, b) == a = b

\* Route.__eq__: the accepted methods are compared as Python lists
RouteEq(a, b) ==
    a.mapped_url = b.mapped_url /\ a.accepted_methods = b.accepted_methods

\* Route.validate_method: method in self.accepted_methods
validate_method(route, method) ==
    \E i \in 1..Len(route.accepted_methods) : route.accepted_methods[i] = method

\* SimpleRoute.validate_url / NestedRoute.validate_url
validate_url(route, url) ==
    IF route.kind = "simple"
    THEN validate_table[route.mapped_url, url]
    ELSE validate_table[route.mapped_route[1].mapped_url,
                        urljoin(url \o <<"/">>, route.default_str)]

\* What get_handler hands back: (handler, params), with none = TRUE for the
\* None of DefaultRoute.parse_url, or raised = TRUE when an exception left
\* the call.
Returned(handler, params) ==
    [raised |-> FALSE, handler |-> handler, none |-> FALSE, params |-> params]

ReturnedNone(handler) ==
    [raised |-> FALSE, handler |-> handler, none |-> TRUE, params |-> <<>>]

Raised == [raised |-> TRUE, handler |-> NoHandler, none |-> FALSE, params |-> <<>>]

\* SimpleRoute.parse_url / NestedRoute.parse_url
route_parse_url(route, url) ==
    IF route.kind = "simple"
    THEN Returned(route.handler, parse_table[route.mapped_url, url])
    ELSE Returned(route.mapped_route[1].handler,
                  parse_table[route.mapped_route[1].mapped_url,
                              urljoin(url \o <<"/">>, route.default_str)])

----------------------------------------------------------------------------
(* RouteSet *)

\* add_route inserting at the front of the list
add_route_front(routes, new_route) ==
    IF \E i \in 1..Len(routes) : routes[i].mapped_url = new_route.mapped_url
                                /\ routes[i].accepted_methods = new_route.accepted_methods
    THEN routes
    ELSE <<new_route>> \o routes

\* RouteSet.add_route: the list after the call
add_route_list(routes, new_route) ==
    IF \E i \in 1..Len(routes) : RouteEq(routes[i], new_route)
    THEN routes
    ELSE Append(routes, new_route)

\* RouteSet.add_route: the value returned
add_route_result(routes, new_route) ==
    ~ \E i \in 1..Len(routes) : RouteEq(routes[i], new_route)

\* next(filter(lambda x: x.validate_method(method) and x.validate_url(url),
\* routes), default), scanning from index i: the index of the route found,
\* 0 for the default route, -1 when validate_url raised.
RECURSIVE get_route_from(_, _, _, _)
get_route_from(routes, i, url, method) ==
    IF i > Len(routes) THEN 0
    ELSE IF ~validate_method(routes[i], method)
    THEN get_route_from(routes, i + 1, url, method)
    ELSE LET v == validate_url(routes[i], url)
         IN  IF v = "True" THEN i
             ELSE IF v = "KeyError" THEN -1
             ELSE get_route_from(routes, i + 1, url, method)

\* get_route keeping the last route that validates instead of the first
get_route_last(routes, url, method) ==
    LET M == {i \in 1..Len(routes) :
                validate_method(routes[i], method)
                /\ validate_url(routes[i], url) = "True"}
    IN  IF M = {} THEN 0 ELSE Max(M)

\* RouteSet.get_route
get_route(routes, url, method) == get_route_from(routes, 1, url, method)

\* get_handler with a default route that answers an empty mapping
get_handler_empty_params(routes, default_handler, url, method) ==
    LET i == get_route(routes, url, method)
    IN  IF i = -1 THEN Raised
        ELSE IF i = 0 THEN Returned(default_handler, <<>>)
        ELSE route_parse_url(routes[i], url)

\* Router.get_handler on a router whose default route holds default_handler
get_handler(routes, default_handler, url, method) ==
    LET i == get_route(routes, url, method)
    IN  IF i = -1 THEN Raised
        ELSE IF i = 0 THEN ReturnedNone(default_handler)
        ELSE route_parse_url(routes[i], url)

----------------------------------------------------------------------------
(* Input sets *)

\* Bound on the length of the route list
MaxRoutes == 2

Routers         == {"r1", "r2"}
Threads         == {"t1", "t2"}
Handlers        == {"h1", "h2"}
\* "d0" stands for _default_handler_not_set
DefaultHandlers == {"d0", "d1"}
Verbs           == {"GET", "POST"}
MethodLists     == {<<"GET">>, <<"GET", "POST">>}
\* The same methods listed in another order
PermutedLists   == {<<"GET", "POST">>, <<"POST", "GET">>}

SimpleUrls      == {TplInt, TplXY}
NestedUrls      == {TplShort, TplAX}
DefaultParams   == {NameY :> ValD}
LookupPaths     == {PathA5, PathAB, PathA5D, PathS5, PathXD}

\* The SimpleRoute objects handed to add_route to be wrapped
MappedRoutes == {SimpleRoute(TplXY, h, <<"GET">>) : h \in Handlers}

----------------------------------------------------------------------------
(* State *)

VARIABLES
    all_routes,       \* RouteSet.__all_routes: the class attribute, which
                      \* RouteSet.__init__ never rebinds on the instance
    default_handler,  \* per Router: routes.__default_route.handler
    registered,       \* history: the Routers add_route was called on
    last,             \* the latest get_handler call, the length of the list
                      \* it read and what it returned
    calls,            \* per thread: a RouteSet.add_route call in progress
    overlapped,       \* history: an add_route call began during another
    probe             \* a template and a path given to the matching layer

vars == <<all_routes, default_handler, registered, last, calls, overlapped, probe>>

Unconstructed == "unconstructed"

NoLookup ==
    [done |-> FALSE, router |-> "none", url |-> <<>>, method |-> "none",
     seen |-> 0, out |-> ReturnedNone(NoHandler)]

Idle == [pc |-> "idle", new_route |-> SimpleRoute(<<>>, NoHandler, <<>>), idx |-> 0]

NoProbe == [step |-> "none", url_format |-> <<>>, url |-> <<>>,
            parsed |-> [ok |-> FALSE, params |-> <<>>], valid |-> "False",
            out |-> ReturnedNone(NoHandler)]

\* router = Router(): one Router with the default default handler
Init ==
    /\ all_routes = <<>>
    /\ default_handler = [r \in Routers |-> IF r = "r1" THEN "d0" ELSE Unconstructed]
    /\ registered = {}
    /\ last = NoLookup
    /\ calls = [t \in Threads |-> Idle]
    /\ overlapped = FALSE
    /\ probe = NoProbe

----------------------------------------------------------------------------
(* Router *)

\* Router.__init__: a new RouteSet around a new DefaultRoute
NewRouter(r, h) ==
    /\ default_handler[r] = Unconstructed
    /\ default_handler' = [default_handler EXCEPT ![r] = h]
    /\ UNCHANGED <<all_routes, registered, last, calls, overlapped, probe>>

\* Router.set_default_handler
SetDefaultHandler(r, h) ==
    /\ default_handler[r] # Unconstructed
    /\ default_handler' = [default_handler EXCEPT ![r] = h]
    /\ UNCHANGED <<all_routes, registered, last, calls, overlapped, probe>>

\* Router.add_route(url, handler, accepted_methods) with a callable handler
AddRoute(r, url, handler, accepted_methods) ==
    /\ default_handler[r] # Unconstructed
    /\ Len(all_routes) < MaxRoutes
    /\ all_routes' = add_route_list(all_routes,
                                    SimpleRoute(url, handler, accepted_methods))
    /\ registered' = registered \cup {r}
    /\ UNCHANGED <<default_handler, last, calls, overlapped, probe>>

\* Router.add_route(url, route, accepted_methods, default_params) with a
\* SimpleRoute in the handler position; an empty default_params raises
\* ValueError before anything is built.
AddNested(r, url, mapped_route, accepted_methods, default_params) ==
    /\ default_handler[r] # Unconstructed
    /\ Len(all_routes) < MaxRoutes
    /\ DOMAIN default_params # {}
    /\ all_routes' = add_route_list(all_routes,
                        NestedRoute(url, mapped_route, accepted_methods,
                                    default_params))
    /\ registered' = registered \cup {r}
    /\ UNCHANGED <<default_handler, last, calls, overlapped, probe>>

\* Router.get_handler
GetHandler(r, url, method) ==
    /\ default_handler[r] # Unconstructed
    /\ last' = [done |-> TRUE, router |-> r, url |-> url, method |-> method,
                seen |-> Len(all_routes),
                out |-> get_handler(all_routes, default_handler[r], url, method)]
    /\ UNCHANGED <<all_routes, default_handler, registered, calls, overlapped, probe>>

\* One Router, calls one at a time
Next ==
    \/ \E u \in SimpleUrls, h \in Handlers, m \in MethodLists :
            AddRoute("r1", u, h, m)
    \/ \E u \in NestedUrls, mr \in MappedRoutes, d \in DefaultParams :
            AddNested("r1", u, mr, <<"GET">>, d)
    \/ \E h \in DefaultHandlers : SetDefaultHandler("r1", h)
    \/ \E u \in LookupPaths, v \in Verbs : GetHandler("r1", u, v)

Spec == Init /\ [][Next]_vars

----------------------------------------------------------------------------
(* Vocabulary of the properties *)

\* The routes of a list that accept the verb and validate the path
Matching(routes, url, method) ==
    {i \in 1..Len(routes) :
        validate_method(routes[i], method) /\ validate_url(routes[i], url) = "True"}

\* The handler a route is bound to
HandlerOf(route) ==
    IF route.kind = "simple" THEN route.handler ELSE route.mapped_route[1].handler

IsPrefix(s, t) == Len(s) <= Len(t) /\ SubSeq(t, 1, Len(s)) = s

Constructed == {r \in Routers : default_handler[r] # Unconstructed}

----------------------------------------------------------------------------
----------------------------------------------------------------------------
\* No route validates: the current default handler, and None
DefaultWhenUnmatched ==
    \A r \in Constructed, u \in LookupPaths, v \in Verbs :
        Matching(all_routes, u, v) = {} =>
            get_handler(all_routes, default_handler[r], u, v)
                = ReturnedNone(default_handler[r])

\* What a set_default_handler(h) step changes and what it leaves alone
SetDefaultFrame ==
    \A r \in Routers, h \in DefaultHandlers :
        SetDefaultHandler(r, h) =>
            /\ all_routes' = all_routes
            /\ \A u \in LookupPaths, v \in Verbs :
                  IF Matching(all_routes, u, v) = {}
                  THEN get_handler(all_routes', default_handler'[r], u, v)
                          = ReturnedNone(h)
                  ELSE get_handler(all_routes', default_handler'[r], u, v)
                          = get_handler(all_routes, default_handler[r], u, v)

----------------------------------------------------------------------------
\* The latest lookup that returned a registered route still resolves alike
LookupStable ==
    (last.done /\ ~last.out.none /\ ~last.out.raised) =>
        get_handler(all_routes, default_handler[last.router], last.url, last.method)
            = last.out

\* A step removes, replaces and reorders nothing
AppendOnly == IsPrefix(all_routes, all_routes')

\* C9: append-only registry and stable resolution.  Every step keeps the
\* route list as a prefix of the new list (nothing removed, replaced or
\* reordered), and a get_handler call that returned a registered route's
\* handler and parameters would return the same now, whatever was registered
\* since.
StableResolution == []LookupStable /\ [][AppendOnly]_vars

\* A lookup returned a registered route, and a route registered after that
\* lookup validates the same path and verb with another handler.
StableResolutionWitness ==
    /\ last.done
    /\ ~last.out.none
    /\ \E j \in Matching(all_routes, last.url, last.method) :
          j > last.seen /\ HandlerOf(all_routes[j]) # last.out.handler

----------------------------------------------------------------------------
(* Templates as the properties read them: a segment of the form <name> or
   <type:name> is a placeholder, every other segment is a literal. *)

IsPlaceholder(seg) == Len(seg) >= 3 /\ seg[1] = "<" /\ seg[Len(seg)] = ">"

PlaceholderName(seg) == URL_PARAMS_TYPE_FINDER(seg).name

PlaceholderType(seg) == PARAM_TYPE_MAPPER(URL_PARAMS_TYPE_FINDER(seg).type)

Placeholders(template) ==
    {k \in 1..Len(split(template)) : IsPlaceholder(split(template)[k])}

SameSegmentCount(template, url) == Len(split(template)) = Len(split(url))

LiteralsAgree(template, url) ==
    \A k \in 1..Len(split(template)) :
        ~IsPlaceholder(split(template)[k]) => split(template)[k] = split(url)[k]

ValuesConvertible(template, url) ==
    \A k \in Placeholders(template) :
        is_convertable(PlaceholderType(split(template)[k]), split(url)[k])

\* The path has the shape of the template and its values convert
PathMatches(template, url) ==
    /\ SameSegmentCount(template, url)
    /\ LiteralsAgree(template, url)
    /\ ValuesConvertible(template, url)

----------------------------------------------------------------------------
\* C4: nested composition.  With a NestedRoute registered at /s/<x> around a
\* SimpleRoute S for /a/<x>/<y> with the default y = "d", get_handler("/s/5")
\* for an accepted verb returns the handler and the typed parameters that
\* S.parse_url("/a/5/d") returns.
NestedComposition ==
    \A i \in 1..Len(all_routes) :
        LET n == all_routes[i]
        IN  (n.kind = "nested" /\ n.mapped_url = TplShort) =>
                \A v \in Verbs :
                    validate_method(n, v) =>
                        get_handler(all_routes, default_handler["r1"], PathS5, v)
                            = Returned(n.mapped_route[1].handler,
                                       simple_parse_url(n.mapped_route[1].mapped_url,
                                                        PathA5D))

----------------------------------------------------------------------------
\* C6: typed round trip.  For a registered SimpleRoute with template T, an
\* accepted verb and a path that matches T (and that no earlier route
\* validates), get_handler returns the route's handler and a mapping with
\* exactly one entry per placeholder of T: the placeholder's name mapped to
\* the path segment at its position, converted by its declared type.
TypedRoundTrip ==
    \A i \in 1..Len(all_routes), u \in LookupPaths, v \in Verbs :
        LET route == all_routes[i]
            out   == get_handler(all_routes, default_handler["r1"], u, v)
            T     == route.mapped_url
        IN  ( /\ route.kind = "simple"
              /\ validate_method(route, v)
              /\ PathMatches(T, u)
              /\ \A j \in 1..(i - 1) : j \notin Matching(all_routes, u, v) ) =>
                /\ ~out.raised /\ ~out.none
                /\ out.handler = route.handler
                /\ Len(out.params) = Cardinality(Placeholders(T))
                /\ \A k \in Placeholders(T) :
                      \E e \in 1..Len(out.params) :
                          /\ out.params[e].name = PlaceholderName(split(T)[k])
                          /\ out.params[e].value =
                                convert(PlaceholderType(split(T)[k]), split(u)[k])

----------------------------------------------------------------------------
(* Several Routers *)

RouterUrls == {TplInt, TplAX}

NextRouters ==
    \/ \E r \in Routers, h \in DefaultHandlers : NewRouter(r, h)
    \/ \E r \in Routers, u \in RouterUrls, h \in Handlers,
          m \in PermutedLists \cup {<<"GET">>} :
            AddRoute(r, u, h, m)
    \/ \E r \in Routers, u \in LookupPaths, v \in Verbs : GetHandler(r, u, v)

SpecRouters == Init /\ [][NextRouters]_vars

SeqSet(s) == {s[i] : i \in 1..Len(s)}

\* C2: deduplication.  add_route(r) returns false and leaves the list
\* unchanged whenever the list holds a route with the same mapped URL and the
\* same set of accepted methods, in whatever order they are listed;
\* otherwise it appends r and returns true.
Deduplication ==
    [][ \A r \in Routers, u \in RouterUrls, h \in Handlers,
           m \in PermutedLists \cup {<<"GET">>} :
          AddRoute(r, u, h, m) =>
            IF \E i \in 1..Len(all_routes) :
                  /\ all_routes[i].mapped_url = u
                  /\ SeqSet(all_routes[i].accepted_methods) = SeqSet(m)
            THEN /\ all_routes' = all_routes
                 /\ ~add_route_result(all_routes, SimpleRoute(u, h, m))
            ELSE /\ all_routes' = Append(all_routes, SimpleRoute(u, h, m))
                 /\ add_route_result(all_routes, SimpleRoute(u, h, m)) ]_vars

\* C3: each Router owns its route list.  A Router on which add_route was
\* never called resolves every path and verb to its own default route,
\* whatever was registered on other Routers.
RouterOwnsRoutes ==
    \A r \in Constructed \ registered, u \in LookupPaths, v \in Verbs :
        get_handler(all_routes, default_handler[r], u, v)
            = ReturnedNone(default_handler[r])

----------------------------------------------------------------------------
(* RouteSet.add_route, statement by statement, on two threads *)

ConcUrls == {TplInt, TplAX}

\* The call enters add_route: the for loop starts at the head of the list
BeginAddRoute(t, new_route) ==
    /\ calls[t].pc = "idle"
    /\ Len(all_routes) < MaxRoutes
    /\ calls' = [calls EXCEPT ![t] = [pc |-> "scan", new_route |-> new_route, idx |-> 1]]
    /\ overlapped' = (overlapped \/ \E o \in Threads \ {t} : calls[o].pc # "idle")
    /\ UNCHANGED <<all_routes, default_handler, registered, last, probe>>

\* One turn of "for route in self.__all_routes: if route == new_route:
\* return False"; the list iterator reads the list's current length.
ScanRoute(t) ==
    /\ calls[t].pc = "scan"
    /\ calls' = [calls EXCEPT ![t] =
                    IF calls[t].idx > Len(all_routes)
                    THEN [calls[t] EXCEPT !.pc = "append"]
                    ELSE IF RouteEq(all_routes[calls[t].idx], calls[t].new_route)
                    THEN Idle
                    ELSE [calls[t] EXCEPT !.idx = calls[t].idx + 1]]
    /\ UNCHANGED <<all_routes, default_handler, registered, last, overlapped, probe>>

\* self.__all_routes.append(new_route); return True
AppendRoute(t) ==
    /\ calls[t].pc = "append"
    /\ all_routes' = Append(all_routes, calls[t].new_route)
    /\ calls' = [calls EXCEPT ![t] = Idle]
    /\ UNCHANGED <<default_handler, registered, last, overlapped, probe>>

NextConc ==
    \/ \E t \in Threads, u \in ConcUrls, h \in Handlers :
            BeginAddRoute(t, SimpleRoute(u, h, <<"GET">>))
    \/ \E t \in Threads : ScanRoute(t)
    \/ \E t \in Threads : AppendRoute(t)

SpecConc == Init /\ [][NextConc]_vars

\* No two routes of the list have the same mapped URL and accepted methods
Distinct(routes) ==
    \A i, j \in 1..Len(routes) :
        i < j => ~ ( /\ routes[i].mapped_url = routes[j].mapped_url
                     /\ routes[i].accepted_methods = routes[j].accepted_methods )

\* C10 as stated: the route list holds no two equal routes in any reachable
\* state, also when two add_route calls interleave their scan and append.
DistinctUnderInterleaving == Distinct(all_routes)

\* C10 amended: the route list holds no two equal routes (same mapped URL,
\* same accepted_methods list) as long as no add_route call has begun while
\* another was in progress.
DistinctWhenSerialized == ~overlapped => Distinct(all_routes)

\* No two calls have overlapped, and a call is at a route of the list that
\* is equal to the one it brings, with another handler.
DistinctWhenSerializedWitness ==
    /\ ~overlapped
    /\ Len(all_routes) >= 1
    /\ \E t \in Threads :
          /\ calls[t].pc = "scan"
          /\ calls[t].idx <= Len(all_routes)
          /\ RouteEq(all_routes[calls[t].idx], calls[t].new_route)
          /\ all_routes[calls[t].idx].handler # calls[t].new_route.handler

----------------------------------------------------------------------------
(* The matching layer on its own: a template and a path are drawn, then
   parse_url, SimpleRoute.validate_url and a lookup are applied in turn. *)

InitMatch ==
    /\ all_routes = <<>>
    /\ default_handler = [r \in Routers |-> IF r = "r1" THEN "d0" ELSE Unconstructed]
    /\ registered = {}
    /\ last = NoLookup
    /\ calls = [t \in Threads |-> Idle]
    /\ overlapped = FALSE
    /\ \E t \in AllTemplates, u \in AllPaths :
          probe = [NoProbe EXCEPT !.step = "input", !.url_format = t, !.url = u]

\* parse_url(url_format, url)
ParseUrl ==
    /\ probe.step = "input"
    /\ probe' = [probe EXCEPT !.step = "parsed",
                              !.parsed = parse_url(probe.url_format, probe.url)]
    /\ UNCHANGED <<all_routes, default_handler, registered, last, calls, overlapped>>

\* SimpleRoute(url_format, h1, [GET]).validate_url(url)
ValidateUrl ==
    /\ probe.step = "parsed"
    /\ probe' = [probe EXCEPT !.step = "validated",
                              !.valid = simple_validate_url(probe.url_format, probe.url)]
    /\ UNCHANGED <<all_routes, default_handler, registered, last, calls, overlapped>>

\* get_handler(url, GET) on a Router that holds that one route
LookupAlone ==
    /\ probe.step = "validated"
    /\ probe' = [probe EXCEPT !.step = "looked",
                              !.out = get_handler(
                                        <<SimpleRoute(probe.url_format, "h1", <<"GET">>)>>,
                                        "d0", probe.url, "GET")]
    /\ UNCHANGED <<all_routes, default_handler, registered, last, calls, overlapped>>

NextMatch == ParseUrl \/ ValidateUrl \/ LookupAlone

SpecMatch == InitMatch /\ [][NextMatch]_vars

\* C7: no matching failure reaches the caller.  For every template and
\* path, validate_url returns a boolean and get_handler raises nothing; a
\* differing segment count, a literal mismatch or a value its formatter
\* cannot convert makes validate_url false and the lookup end at the default
\* route.
NoMatchingFailure ==
    probe.step = "looked" =>
        /\ probe.valid \in {"True", "False"}
        /\ ~probe.out.raised
        /\ ~PathMatches(probe.url_format, probe.url) =>
              /\ probe.valid = "False"
              /\ probe.out = ReturnedNone("d0")

\* C8: path matching.  For a template and a path with the same number of
\* segments, parse_url succeeds exactly when every literal segment of the
\* template equals the path's segment at its position, and the mapping then
\* holds every placeholder's name mapped to the path's segment at its
\* position, also when that segment is the placeholder token itself.
PathMatching ==
    (probe.step # "input" /\ SameSegmentCount(probe.url_format, probe.url)) =>
        /\ probe.parsed.ok <=> LiteralsAgree(probe.url_format, probe.url)
        /\ probe.parsed.ok =>
              \A k \in Placeholders(probe.url_format) :
                  \E e \in 1..Len(probe.parsed.params) :
                      /\ probe.parsed.params[e].name
                            = PlaceholderName(split(probe.url_format)[k])
                      /\ probe.parsed.params[e].value = split(probe.url)[k]

====
